---- MODULE Spec2Model ----
(***************************************************************************)
(* django-mailersend: conversion of a Django email message into the        *)
(* MailerSend payload, and the sending of it.                              *)
(*                                                                         *)
(* Two classes named MailerSendEmailMessage exist: the one of message.py   *)
(* (cls = "message") and the one of backend.py (cls = "backend"), which is *)
(* the one MailerSendEmailBackend.send_messages instantiates.              *)
(*                                                                         *)
(* Python strings that the code slices or parses (addresses, the transport *)
(* response) are tuples of one-character strings; attachment contents are  *)
(* typed sequences of code points / bytes; filenames and mime types are    *)
(* TLA+ strings.                                                           *)
(***************************************************************************)
EXTENDS Integers, Sequences, FiniteSets, TLC

\* pc:            where the caller, __init__ or send_messages stands
\* cls:           the class in use, "message" (message.py) or "backend"
\* obj:           the MailerSendEmailMessage: its fields, the helper
\*                __init__ calls next, and the exception raised if any
\* transport_arg: the payload handed to NewEmail.send
\* response:      what NewEmail.send answered
\* result:        what send, and then send_messages, returned
\* i:             the position in email_messages of the message in hand
\* accepted:      how many responses started with '202' (history)
\* transports:    how many times NewEmail.send was called (history)
VARIABLES pc, cls, obj, transport_arg, response, result, i, accepted, transports

\* Conversions of several messages whose helper calls interleave:
\* objs:        the MailerSendEmailMessage of each conversion
\* sources:     the message each conversion was given (history)
\* mailer:      the NewEmail object the class of message.py holds for all
\*              its instances
\* last_caller: the conversion that made the last helper call (history)
\* interleaved: a conversion made a helper call while another one was
\*              between two of its own (history)
VARIABLES objs, sources, mailer, last_caller, interleaved

sequential == <<pc, obj, transport_arg, response, result, i, accepted, transports>>

concurrent == <<objs, sources, mailer, last_caller, interleaved>>

vars == <<pc, cls, obj, transport_arg, response, result, i, accepted, transports,
          objs, sources, mailer, last_caller, interleaved>>

\* ---------------------------------------------------------------- bounds
MaxAlternatives == 2
MaxRecipients == 2
MaxAttachments == 3
MaxBatch == 2
MaxConcurrentAttachments == 2

\* ------------------------------------------------------- Python values
NoneVal == "<None>"

Put(d, k, v) == [x \in (DOMAIN d) \cup {k} |-> IF x = k THEN v ELSE d[x]]

Has(d, k) == k \in DOMAIN d

Str(cs) == [type |-> "str", val |-> cs]

Bytes(bs) == [type |-> "bytes", val |-> bs]

\* ------------------------------------------------------------- base64
B64Char(s) ==
    IF s < 26 THEN 65 + s
    ELSE IF s < 52 THEN 97 + (s - 26)
    ELSE IF s < 62 THEN 48 + (s - 52)
    ELSE IF s = 62 THEN 43 ELSE 47

B64Index(c) ==
    IF c >= 65 /\ c <= 90 THEN c - 65
    ELSE IF c >= 97 /\ c <= 122 THEN c - 97 + 26
    ELSE IF c >= 48 /\ c <= 57 THEN c - 48 + 52
    ELSE IF c = 43 THEN 62 ELSE 63

RECURSIVE B64EncodeFrom(_, _)
B64EncodeFrom(bs, k) ==
    IF k > Len(bs) THEN <<>>
    ELSE LET n  == Len(bs) - k + 1
             b1 == bs[k]
             b2 == IF n >= 2 THEN bs[k + 1] ELSE 0
             b3 == IF n >= 3 THEN bs[k + 2] ELSE 0
             s1 == b1 \div 4
             s2 == (b1 % 4) * 16 + (b2 \div 16)
             s3 == (b2 % 16) * 4 + (b3 \div 64)
             s4 == b3 % 64
         IN  <<B64Char(s1), B64Char(s2),
               IF n >= 2 THEN B64Char(s3) ELSE 61,
               IF n >= 3 THEN B64Char(s4) ELSE 61>>
             \o B64EncodeFrom(bs, k + 3)

RECURSIVE B64DecodeFrom(_, _)
B64DecodeFrom(cs, k) ==
    IF k + 3 > Len(cs) THEN <<>>
    ELSE LET s1 == B64Index(cs[k])
             s2 == B64Index(cs[k + 1])
             p3 == cs[k + 2] = 61
             p4 == cs[k + 3] = 61
             s3 == IF p3 THEN 0 ELSE B64Index(cs[k + 2])
             s4 == IF p4 THEN 0 ELSE B64Index(cs[k + 3])
             b1 == s1 * 4 + (s2 \div 16)
             b2 == (s2 % 16) * 16 + (s3 \div 4)
             b3 == (s3 % 4) * 64 + s4
         IN  (IF p3 THEN <<b1>> ELSE IF p4 THEN <<b1, b2>> ELSE <<b1, b2, b3>>)
             \o B64DecodeFrom(cs, k + 4)

\* base64.b64encode(content).decode('ascii')
b64encode(content) == Str(B64EncodeFrom(content.val, 1))

\* base64.b64decode(content)
b64decode(content) == Bytes(B64DecodeFrom(content.val, 1))

\* str.encode(), on ASCII text
encode(content) == Bytes(content.val)

\* ------------------------------------------------- email.utils.parseaddr
RECURSIVE IndexOf(_, _, _)
IndexOf(cs, c, k) ==
    IF k > Len(cs) THEN 0
    ELSE IF cs[k] = c THEN k ELSE IndexOf(cs, c, k + 1)

RECURSIVE Strip(_)
Strip(cs) ==
    IF Len(cs) = 0 THEN cs
    ELSE IF cs[1] = " " THEN Strip(Tail(cs))
    ELSE IF cs[Len(cs)] = " " THEN Strip(SubSeq(cs, 1, Len(cs) - 1))
    ELSE cs

FirstToken(cs) ==
    LET sp == IndexOf(cs, " ", 1)
    IN  IF sp = 0 THEN cs ELSE SubSeq(cs, 1, sp - 1)

\* The (realname, email) pair of the standard parser, for addresses without
\* quoted strings or comments: "Name <addr>", "addr", and the empty string,
\* for which it returns two empty strings.
parseaddr(address) ==
    LET lt == IndexOf(address, "<", 1)
    IN  IF lt > 0
        THEN LET gt   == IndexOf(address, ">", lt)
                 last == IF gt > 0 THEN gt - 1 ELSE Len(address)
             IN  <<Strip(SubSeq(address, 1, lt - 1)),
                   SubSeq(address, lt + 1, last)>>
        ELSE <<<<>>, FirstToken(Strip(address))>>

\* message.py: __parse_address
parse_address(address) ==
    LET parsed_address_tuple == parseaddr(address)
        named == IF Len(parsed_address_tuple[1]) > 0
                 THEN Put(<<>>, "name", parsed_address_tuple[1])
                 ELSE <<>>
    IN  Put(named, "email", parsed_address_tuple[2])

\* backend.py: lambda to: {'email': to}
raw_address(address) == Put(<<>>, "email", address)

\* The address conversion of the class in use.
convert_address(c, address) ==
    IF c = "message" THEN parse_address(address) ELSE raw_address(address)

\* mimetypes.guess_extension, on the content types of the model
guess_extension(content_type) ==
    IF content_type = "text/plain" THEN ".txt"
    ELSE IF content_type = "application/pdf" THEN ".pdf"
    ELSE NoneVal

\* ------------------------------------------------------ source messages
SeqsUpTo(S, n) == UNION {[1..k -> S] : k \in 0..n}

NamedAddress == <<"J", " ", "D", " ", "<", "j", "@", "x", ">">>

BareAddress == <<"k", "@", "y">>

EmptyAddress == <<>>

Addresses == {NamedAddress, BareAddress, EmptyAddress}

RecipientAddresses == {NamedAddress, BareAddress}

Subtypes == {"plain", "html", "calendar"}

AlternativeKinds == {"text/html", "text/plain", "text/calendar"}

HeaderSets == {{}, {"X-Tag"}}

AltContent(j) == "alt" \o ToString(j)

\* The alternatives of a message: (content, mimetype) pairs; the j-th has
\* the content "alt<j>", so that contents tell the alternatives apart.
AlternativesOf(kinds) == [j \in 1..Len(kinds) |-> <<AltContent(j), kinds[j]>>]

PdfBytes == <<37, 80, 68, 70>>

HiText == <<104, 105>>

MimeNamed ==
    [form |-> "mime", filename |-> "report.pdf", content_type |-> "application/pdf",
     charset |-> NoneVal, payload |-> b64encode(Bytes(PdfBytes))]

MimeNamelessText ==
    [form |-> "mime", filename |-> NoneVal, content_type |-> "text/plain",
     charset |-> "utf-8", payload |-> Str(HiText)]

MimeNamelessUnknown ==
    [form |-> "mime", filename |-> NoneVal, content_type |-> "application/x-unknown",
     charset |-> NoneVal, payload |-> b64encode(Bytes(PdfBytes))]

TupleNamedText ==
    [form |-> "tuple", filename |-> "notes.txt", content |-> Str(HiText),
     mimetype |-> "text/plain"]

TupleNamedBytes ==
    [form |-> "tuple", filename |-> "scan.pdf", content |-> Bytes(PdfBytes),
     mimetype |-> "application/pdf"]

TupleNameless ==
    [form |-> "tuple", filename |-> NoneVal, content |-> Bytes(PdfBytes),
     mimetype |-> "application/pdf"]

Attachments ==
    {MimeNamed, MimeNamelessText, MimeNamelessUnknown,
     TupleNamedText, TupleNamedBytes, TupleNameless}

BaseMessage ==
    [subject |-> "subject", body |-> "body", content_subtype |-> "plain",
     has_alternatives |-> FALSE, alternatives |-> <<>>,
     from_email |-> BareAddress, to |-> <<BareAddress>>,
     cc |-> <<>>, bcc |-> <<>>, reply_to |-> <<>>,
     attachments |-> <<>>, extra_headers |-> {}]

\* Messages that vary in headers, body kind and alternatives (an
\* EmailMessage has no alternatives attribute, an EmailMultiAlternatives has).
ContentMessages ==
    {[BaseMessage EXCEPT !.extra_headers = h, !.content_subtype = s,
                         !.has_alternatives = TRUE,
                         !.alternatives = AlternativesOf(ks),
                         !.attachments = a] :
        h \in HeaderSets, s \in Subtypes,
        ks \in SeqsUpTo(AlternativeKinds, MaxAlternatives),
        a \in {<<>>, <<MimeNamelessUnknown>>}}
    \cup
    {[BaseMessage EXCEPT !.extra_headers = h, !.content_subtype = s] :
        h \in HeaderSets, s \in Subtypes}

\* The lists N, B, N, ... of at most n addresses: neighbours differ, so
\* that the order of the entries shows.
Alternating(first, second, n) ==
    {[j \in 1..k |-> IF j % 2 = 1 THEN first ELSE second] : k \in 0..n}

\* Messages that vary in their addresses.
AddressMessages ==
    {[BaseMessage EXCEPT !.from_email = f, !.to = t, !.cc = c, !.bcc = b,
                         !.reply_to = r] :
        f \in Addresses,
        t \in SeqsUpTo(RecipientAddresses, MaxRecipients),
        c \in Alternating(NamedAddress, BareAddress, MaxRecipients),
        b \in Alternating(BareAddress, NamedAddress, MaxRecipients),
        r \in Alternating(NamedAddress, BareAddress, MaxRecipients)}

\* Messages that vary in their attachments.
AttachmentMessages ==
    {[BaseMessage EXCEPT !.attachments = a] :
        a \in SeqsUpTo(Attachments, MaxAttachments)}

Messages == ContentMessages \cup AddressMessages \cup AttachmentMessages

\* The transport's response text, "<status code>\n<body>", and degenerate ones.
Responses ==
    {<<"2", "0", "2", "\n">>,
     <<"2", "0", "2">>,
     <<"5", "0", "0", "\n", "e">>,
     <<"2", "0">>,
     <<>>}

\* ------------------------------------------- MailerSendEmailMessage
\* err is "none" or the exception raised: "UnsupportedHeaders" is
\* ValueError('Extra headers not supported'), "UnsupportedContentType" is
\* ValueError('Content type not supported'); step is the helper __init__
\* calls next.
NewObject(email_message) ==
    [email_message |-> email_message, email_data |-> <<>>,
     nameless_attachment_index |-> 1,
     step |-> "validate_headers", err |-> "none"]

NoObject ==
    [email_message |-> BaseMessage, email_data |-> <<>>,
     nameless_attachment_index |-> 0, step |-> "none", err |-> "none"]

NextStep ==
    [validate_headers |-> "set_content", set_content |-> "set_mail_from",
     set_mail_from |-> "set_mail_to", set_mail_to |-> "set_subject",
     set_subject |-> "set_cc_recipients",
     set_cc_recipients |-> "set_bcc_recipients",
     set_bcc_recipients |-> "set_reply_to",
     set_reply_to |-> "set_attachments", set_attachments |-> "done"]

Raise(o, e) == [o EXCEPT !.err = e]

\* NewEmail.set_*(value, email_data): email_data[key] = value
SetData(o, k, v) == [o EXCEPT !.email_data = Put(@, k, v)]

\* Variant: the extra headers are not looked at.
validate_headers_unchecked(o) == o

validate_headers(o) ==
    IF Cardinality(o.email_message.extra_headers) > 0
    THEN Raise(o, "UnsupportedHeaders")
    ELSE o

\* Variant: an alternative of an unsupported kind is skipped.
RECURSIVE OverlayAlternativesLenient(_, _, _)
OverlayAlternativesLenient(content, alternatives, j) ==
    IF j > Len(alternatives) THEN [ok |-> TRUE, content |-> content]
    ELSE IF alternatives[j][2] \in {"text/html", "text/plain"}
    THEN OverlayAlternativesLenient(
             Put(content, alternatives[j][2], alternatives[j][1]),
             alternatives, j + 1)
    ELSE OverlayAlternativesLenient(content, alternatives, j + 1)

\* Variant: a kind that is already set is not overwritten.
RECURSIVE OverlayAlternativesKeepFirst(_, _, _)
OverlayAlternativesKeepFirst(content, alternatives, j) ==
    IF j > Len(alternatives) THEN [ok |-> TRUE, content |-> content]
    ELSE IF alternatives[j][2] \in {"text/html", "text/plain"}
    THEN OverlayAlternativesKeepFirst(
             IF Has(content, alternatives[j][2]) THEN content
             ELSE Put(content, alternatives[j][2], alternatives[j][1]),
             alternatives, j + 1)
    ELSE [ok |-> FALSE, content |-> content]

RECURSIVE OverlayAlternatives(_, _, _)
OverlayAlternatives(content, alternatives, j) ==
    IF j > Len(alternatives) THEN [ok |-> TRUE, content |-> content]
    ELSE IF alternatives[j][2] \in {"text/html", "text/plain"}
    THEN OverlayAlternatives(
             Put(content, alternatives[j][2], alternatives[j][1]),
             alternatives, j + 1)
    ELSE [ok |-> FALSE, content |-> content]

set_content(o) ==
    LET m == o.email_message
        seeded == IF m.content_subtype = "plain"
                  THEN Put(<<>>, "text/plain", m.body)
                  ELSE Put(<<>>, "text/html", m.body)
        alternatives == IF m.has_alternatives THEN m.alternatives ELSE <<>>
        merged == OverlayAlternatives(seeded, alternatives, 1)
        content == merged.content
        with_text == IF Has(content, "text/plain")
                     THEN SetData(o, "text", content["text/plain"])
                     ELSE o
    IN  IF m.content_subtype \notin {"plain", "html"}
        THEN Raise(o, "UnsupportedContentType")
        ELSE IF ~merged.ok THEN Raise(o, "UnsupportedContentType")
        ELSE IF Has(content, "text/html")
        THEN SetData(with_text, "html", content["text/html"])
        ELSE with_text

ConvertAll(c, addresses) ==
    [j \in 1..Len(addresses) |-> convert_address(c, addresses[j])]

set_mail_from(c, o) ==
    SetData(o, "from", convert_address(c, o.email_message.from_email))

set_mail_to(c, o) == SetData(o, "to", ConvertAll(c, o.email_message.to))

set_subject(o) == SetData(o, "subject", o.email_message.subject)

\* Variant: cc is set also when the message has none.
set_cc_recipients_always(c, o) ==
    SetData(o, "cc", ConvertAll(c, o.email_message.cc))

set_cc_recipients(c, o) ==
    IF Len(o.email_message.cc) = 0 THEN o
    ELSE SetData(o, "cc", ConvertAll(c, o.email_message.cc))

set_bcc_recipients(c, o) ==
    IF Len(o.email_message.bcc) = 0 THEN o
    ELSE SetData(o, "bcc", ConvertAll(c, o.email_message.bcc))

set_reply_to(c, o) ==
    IF Len(o.email_message.reply_to) = 0 THEN o
    ELSE SetData(o, "reply_to", ConvertAll(c, o.email_message.reply_to))

\* The filename, the counter after the call, and the exception if any: a
\* tuple has no get_content_type (AttributeError), and 'attachment-1' + None
\* is a TypeError.
get_attachment_filename(index, attachment) ==
    IF attachment.filename # NoneVal
    THEN [err |-> "none", filename |-> attachment.filename, index |-> index]
    ELSE IF attachment.form # "mime"
    THEN [err |-> "AttributeError", filename |-> NoneVal, index |-> index]
    ELSE IF guess_extension(attachment.content_type) = NoneVal
    THEN [err |-> "TypeError", filename |-> NoneVal, index |-> index]
    ELSE [err |-> "none",
          filename |-> "attachment-" \o ToString(index)
                       \o guess_extension(attachment.content_type),
          index |-> index + 1]

get_attachment_content(attachment) ==
    IF attachment.form = "mime"
    THEN IF attachment.charset = NoneVal
         THEN b64decode(attachment.payload)
         ELSE encode(attachment.payload)
    ELSE IF attachment.content.type = "str"
         THEN encode(attachment.content)
         ELSE attachment.content

RECURSIVE EncodeAttachments(_, _, _, _)
EncodeAttachments(attachments, j, index, mail_attachments) ==
    IF j > Len(attachments)
    THEN [err |-> "none", index |-> index, mail_attachments |-> mail_attachments]
    ELSE LET f == get_attachment_filename(index, attachments[j])
         IN  IF f.err # "none"
             THEN [err |-> f.err, index |-> f.index,
                   mail_attachments |-> mail_attachments]
             ELSE EncodeAttachments(
                      attachments, j + 1, f.index,
                      Append(mail_attachments,
                             [filename |-> f.filename,
                              content |-> b64encode(
                                  get_attachment_content(attachments[j])),
                              disposition |-> "attachment"]))

set_attachments(o) ==
    LET r == EncodeAttachments(o.email_message.attachments, 1,
                               o.nameless_attachment_index, <<>>)
        counted == [o EXCEPT !.nameless_attachment_index = r.index]
    IN  IF Len(o.email_message.attachments) = 0 THEN o
        ELSE IF r.err # "none" THEN Raise(counted, r.err)
        ELSE SetData(counted, "attachments", r.mail_attachments)

\* Variant: the whole response is compared with '202'.
AcceptedWhole(resp) == resp = <<"2", "0", "2">>

\* response[:3] == '202'
Accepted(resp) ==
    SubSeq(resp, 1, IF Len(resp) < 3 THEN Len(resp) ELSE 3) = <<"2", "0", "2">>

IntResult(n) == [type |-> "int", val |-> n]

NoResult == [type |-> "NoneType", val |-> 0]

\* message.py send: 1 or 0
message_send(resp) == IF Accepted(resp) THEN IntResult(1) ELSE IntResult(0)

\* backend.py send: the transport's response, as returned by NewEmail.send
backend_send(resp) == [type |-> "str", val |-> resp]

\* ---------------------------------------------------------- the actions
\* The NewEmail object: the API key it was constructed with.
NewEmail == [mailersend_api_key |-> "key"]

Conversions == {"c1", "c2"}

\* No interleaved conversion has begun.
ConcurrentIdle ==
    /\ objs = [t \in Conversions |-> NoObject]
    /\ sources = [t \in Conversions |-> BaseMessage]
    /\ mailer = NewEmail
    /\ last_caller = NoneVal
    /\ interleaved = FALSE

Init ==
    /\ ConcurrentIdle
    /\ pc = "start"
    /\ cls = NoneVal
    /\ obj = NoObject
    /\ transport_arg = <<>>
    /\ response = <<>>
    /\ result = NoResult
    /\ i = 0
    /\ accepted = 0
    /\ transports = 0

\* A caller constructs the MailerSendEmailMessage of message.py.
MessageNew ==
    /\ pc = "start"
    /\ \E email_message \in Messages : obj' = NewObject(email_message)
    /\ cls' = "message"
    /\ pc' = "init"
    /\ UNCHANGED concurrent
    /\ UNCHANGED <<transport_arg, response, result, i, accepted, transports>>

\* send_messages is called with a list of at most MaxBatch messages.
SendMessages ==
    /\ pc = "start"
    /\ cls' = "backend"
    /\ pc' = "loop"
    /\ UNCHANGED concurrent
    /\ UNCHANGED <<obj, transport_arg, response, result, i, accepted, transports>>

\* The loop takes the next message of the list and constructs the
\* MailerSendEmailMessage of backend.py for it.
BackendNew ==
    /\ pc = "loop"
    /\ i < MaxBatch
    /\ \E email_message \in Messages : obj' = NewObject(email_message)
    /\ i' = i + 1
    /\ pc' = "init"
    /\ UNCHANGED concurrent
    /\ UNCHANGED <<cls, transport_arg, response, result, accepted, transports>>

\* Variant: the exception of a helper is swallowed and __init__ goes on.
CallSwallow(step, o) ==
    /\ pc = "init"
    /\ obj.step = step
    /\ obj' = [o EXCEPT !.step = NextStep[step]]
    /\ pc' = IF NextStep[step] = "done" THEN "built" ELSE "init"
    /\ UNCHANGED concurrent
    /\ UNCHANGED <<cls, transport_arg, response, result, i, accepted, transports>>

\* One helper call of __init__: an exception leaves __init__ (and
\* send_messages), the last helper ends the construction.
Call(step, o) ==
    /\ pc = "init"
    /\ obj.step = step
    /\ obj' = IF o.err = "none" THEN [o EXCEPT !.step = NextStep[step]] ELSE o
    /\ pc' = IF o.err # "none" THEN "raised"
             ELSE IF NextStep[step] = "done" THEN "built" ELSE "init"
    /\ UNCHANGED concurrent
    /\ UNCHANGED <<cls, transport_arg, response, result, i, accepted, transports>>

ValidateHeaders == Call("validate_headers", validate_headers(obj))

SetContent == Call("set_content", set_content(obj))

SetMailFrom == Call("set_mail_from", set_mail_from(cls, obj))

SetMailTo == Call("set_mail_to", set_mail_to(cls, obj))

SetSubject == Call("set_subject", set_subject(obj))

SetCcRecipients == Call("set_cc_recipients", set_cc_recipients(cls, obj))

SetBccRecipients == Call("set_bcc_recipients", set_bcc_recipients(cls, obj))

SetReplyTo == Call("set_reply_to", set_reply_to(cls, obj))

SetAttachments == Call("set_attachments", set_attachments(obj))

\* The transport call: NewEmail.send(email_data) answers with some response.
Transport(resp) ==
    /\ transport_arg' = obj.email_data
    /\ response' = resp
    /\ transports' = transports + 1
    /\ accepted' = IF Accepted(resp) THEN accepted + 1 ELSE accepted

MessageSend ==
    /\ pc = "built"
    /\ cls = "message"
    /\ \E resp \in Responses :
          /\ Transport(resp)
          /\ result' = message_send(resp)
    /\ pc' = "returned"
    /\ UNCHANGED concurrent
    /\ UNCHANGED <<cls, obj, i>>

BackendSend ==
    /\ pc = "built"
    /\ cls = "backend"
    /\ \E resp \in Responses :
          /\ Transport(resp)
          /\ result' = backend_send(resp)
    /\ pc' = "sent"
    /\ UNCHANGED concurrent
    /\ UNCHANGED <<cls, obj, i>>

\* The value of send() is dropped and the loop goes on.
NextIteration ==
    /\ pc = "sent"
    /\ pc' = "loop"
    /\ obj' = NoObject
    /\ transport_arg' = <<>>
    /\ response' = <<>>
    /\ result' = NoResult
    /\ UNCHANGED concurrent
    /\ UNCHANGED <<cls, i, accepted, transports>>

\* The list is exhausted: send_messages ends without a return statement.
SendMessagesReturn ==
    /\ pc = "loop"
    /\ pc' = "returned"
    /\ result' = NoResult
    /\ UNCHANGED concurrent
    /\ UNCHANGED <<cls, obj, transport_arg, response, i, accepted, transports>>

Next ==
    \/ MessageNew
    \/ SendMessages
    \/ BackendNew
    \/ ValidateHeaders
    \/ SetContent
    \/ SetMailFrom
    \/ SetMailTo
    \/ SetSubject
    \/ SetCcRecipients
    \/ SetBccRecipients
    \/ SetReplyTo
    \/ SetAttachments
    \/ MessageSend
    \/ BackendSend
    \/ NextIteration
    \/ SendMessagesReturn

Spec == Init /\ [][Next]_vars

\* ------------------------------------------- interleaved conversions
\* Messages for the interleaved conversions: attachments with and without
\* filename, and messages whose conversion raises in its first or last helper.
ConcurrentMessages ==
    {[BaseMessage EXCEPT !.attachments = a] :
        a \in SeqsUpTo({MimeNamelessText, MimeNamed}, MaxConcurrentAttachments)}
    \cup
    {[BaseMessage EXCEPT !.extra_headers = {"X-Tag"}],
     [BaseMessage EXCEPT !.attachments = <<MimeNamelessText, MimeNamelessUnknown>>],
     [BaseMessage EXCEPT !.content_subtype = "html", !.has_alternatives = TRUE,
                         !.alternatives = AlternativesOf(<<"text/plain">>),
                         !.from_email = NamedAddress,
                         !.cc = <<NamedAddress, BareAddress>>]}

\* Several threads construct MailerSendEmailMessage objects of one of the
\* two classes at the same time.
InitConcurrent ==
    /\ pc = "concurrent"
    /\ cls \in {"message", "backend"}
    /\ obj = NoObject
    /\ transport_arg = <<>>
    /\ response = <<>>
    /\ result = NoResult
    /\ i = 0
    /\ accepted = 0
    /\ transports = 0
    /\ ConcurrentIdle

ConcurrentNew ==
    /\ pc = "concurrent"
    /\ \E t \in Conversions :
          /\ objs[t].step = "none"
          /\ \E email_message \in ConcurrentMessages :
                /\ objs' = [objs EXCEPT ![t] = NewObject(email_message)]
                /\ sources' = [sources EXCEPT ![t] = email_message]
    /\ UNCHANGED <<cls, mailer, last_caller, interleaved>>
    /\ UNCHANGED sequential

\* Variant: the nameless-attachment counter is one counter of the class,
\* which every object reads and writes.
ConcurrentCallSharedCounter(t, step, o) ==
    /\ pc = "concurrent"
    /\ objs[t].step = step
    /\ objs[t].err = "none"
    /\ objs' = [u \in Conversions |->
                   IF u = t
                   THEN IF o.err = "none"
                        THEN [o EXCEPT !.step = NextStep[step]] ELSE o
                   ELSE IF objs[u].step = "none" THEN objs[u]
                   ELSE [objs[u] EXCEPT !.nameless_attachment_index =
                                            o.nameless_attachment_index]]
    /\ last_caller' = t
    /\ interleaved' = (interleaved
                       \/ (step # "validate_headers" /\ last_caller # t))
    /\ UNCHANGED <<cls, sources, mailer>>
    /\ UNCHANGED sequential

\* One helper call of the __init__ of conversion t: it reads and writes the
\* fields of its own object; the NewEmail setter it calls writes the
\* email_data it is handed and nothing of the NewEmail object.
ConcurrentCall(t, step, o) ==
    /\ pc = "concurrent"
    /\ objs[t].step = step
    /\ objs[t].err = "none"
    /\ objs' = [objs EXCEPT ![t] = IF o.err = "none"
                                   THEN [o EXCEPT !.step = NextStep[step]]
                                   ELSE o]
    /\ last_caller' = t
    /\ interleaved' = (interleaved
                       \/ (step # "validate_headers" /\ last_caller # t))
    /\ UNCHANGED <<cls, sources, mailer>>
    /\ UNCHANGED sequential

ConcurrentValidateHeaders ==
    \E t \in Conversions :
        ConcurrentCall(t, "validate_headers", validate_headers(objs[t]))

ConcurrentSetContent ==
    \E t \in Conversions : ConcurrentCall(t, "set_content", set_content(objs[t]))

ConcurrentSetMailFrom ==
    \E t \in Conversions :
        ConcurrentCall(t, "set_mail_from", set_mail_from(cls, objs[t]))

ConcurrentSetMailTo ==
    \E t \in Conversions :
        ConcurrentCall(t, "set_mail_to", set_mail_to(cls, objs[t]))

ConcurrentSetSubject ==
    \E t \in Conversions : ConcurrentCall(t, "set_subject", set_subject(objs[t]))

ConcurrentSetCcRecipients ==
    \E t \in Conversions :
        ConcurrentCall(t, "set_cc_recipients", set_cc_recipients(cls, objs[t]))

ConcurrentSetBccRecipients ==
    \E t \in Conversions :
        ConcurrentCall(t, "set_bcc_recipients", set_bcc_recipients(cls, objs[t]))

ConcurrentSetReplyTo ==
    \E t \in Conversions :
        ConcurrentCall(t, "set_reply_to", set_reply_to(cls, objs[t]))

ConcurrentSetAttachments ==
    \E t \in Conversions :
        ConcurrentCall(t, "set_attachments", set_attachments(objs[t]))

NextConcurrent ==
    \/ ConcurrentNew
    \/ ConcurrentValidateHeaders
    \/ ConcurrentSetContent
    \/ ConcurrentSetMailFrom
    \/ ConcurrentSetMailTo
    \/ ConcurrentSetSubject
    \/ ConcurrentSetCcRecipients
    \/ ConcurrentSetBccRecipients
    \/ ConcurrentSetReplyTo
    \/ ConcurrentSetAttachments

SpecConcurrent == InitConcurrent /\ [][NextConcurrent]_vars

\* The helper __init__ calls at a step.
ApplyStep(c, step, o) ==
    CASE step = "validate_headers" -> validate_headers(o)
      [] step = "set_content" -> set_content(o)
      [] step = "set_mail_from" -> set_mail_from(c, o)
      [] step = "set_mail_to" -> set_mail_to(c, o)
      [] step = "set_subject" -> set_subject(o)
      [] step = "set_cc_recipients" -> set_cc_recipients(c, o)
      [] step = "set_bcc_recipients" -> set_bcc_recipients(c, o)
      [] step = "set_reply_to" -> set_reply_to(c, o)
      [] step = "set_attachments" -> set_attachments(o)

\* The object after at most n helper calls of an __init__ that runs alone.
RECURSIVE RunAlone(_, _, _)
RunAlone(c, o, n) ==
    IF n = 0 \/ o.err # "none" \/ o.step = "done" THEN o
    ELSE LET called == ApplyStep(c, o.step, o)
         IN  RunAlone(c,
                      IF called.err = "none"
                      THEN [called EXCEPT !.step = NextStep[o.step]]
                      ELSE called,
                      n - 1)

\* ------------------------------------------------------------ properties
Message == obj.email_message

Payload == obj.email_data

\* A conversion is under way or has ended.
Converting == obj.step # "none"

Failed == Converting /\ obj.err # "none"

Built == obj.step = "done"

SupportedKinds == {"text/html", "text/plain"}

BadContent(m) ==
    \/ m.content_subtype \notin {"plain", "html"}
    \/ \E j \in 1..Len(m.alternatives) : m.alternatives[j][2] \notin SupportedKinds

\* The position of the last alternative of a kind, 0 if there is none.
LastAlternative(m, kind) ==
    LET at == {j \in 1..Len(m.alternatives) : m.alternatives[j][2] = kind}
    IN  IF at = {} THEN 0 ELSE CHOOSE j \in at : \A k \in at : k <= j

ContentPresent(m, kind, subtype) ==
    LastAlternative(m, kind) > 0 \/ m.content_subtype = subtype

ContentExpected(m, kind) ==
    IF LastAlternative(m, kind) > 0
    THEN m.alternatives[LastAlternative(m, kind)][1]
    ELSE m.body

OptionalKeys == {"cc", "bcc", "reply_to", "attachments"}

\* The keys of the payload of a complete conversion of m.
ExpectedKeys(m) ==
    {"from", "to", "subject"}
    \cup (IF ContentPresent(m, "text/plain", "plain") THEN {"text"} ELSE {})
    \cup (IF ContentPresent(m, "text/html", "html") THEN {"html"} ELSE {})
    \cup {k \in OptionalKeys : Len(m[k]) > 0}

\* The transport calls made for the messages before the current one.
SentBefore == IF cls = "backend" /\ i > 0 THEN i - 1 ELSE 0

\* send() has returned for the current message.
SendReturned == pc = "sent" \/ (pc = "returned" /\ cls = "message")

\* C1: a message with extra headers never gets past the first helper: its
\* construction raises UnsupportedHeaders there, with an empty payload,
\* whatever its content kind is.
C1_HeadersFailFast ==
    (Converting /\ Message.extra_headers # {}) =>
        /\ obj.step = "validate_headers"
        /\ pc \in {"init", "raised"}
        /\ (pc = "raised" <=> obj.err = "UnsupportedHeaders")
        /\ obj.err \in {"none", "UnsupportedHeaders"}
        /\ DOMAIN Payload = {}

C1_Witness ==
    /\ pc = "raised"
    /\ Message.extra_headers # {}
    /\ Message.content_subtype = "calendar"
    /\ obj.err = "UnsupportedHeaders"
    /\ DOMAIN Payload = {}

C3_TransportAfterConversion ==
    /\ (pc \in {"init", "built", "raised"}) => transports = SentBefore
    /\ SendReturned =>
          /\ Built
          /\ obj.err = "none"
          /\ transports = SentBefore + 1
          /\ transport_arg = Payload
          /\ DOMAIN transport_arg = ExpectedKeys(Message)

C3_Witness ==
    /\ pc = "raised"
    /\ cls = "backend"
    /\ i = 2
    /\ transports = 1
    /\ obj.step = "set_attachments"
    /\ DOMAIN Payload # {}

\* C4: once the content is set, each of text and html holds the content of
\* the last alternative of its kind, else the body if the body is of that
\* kind, else is absent; one of the two is always set.
C4_ContentOverlay ==
    (Converting /\ obj.step \notin {"validate_headers", "set_content"}) =>
        /\ Has(Payload, "text") <=> ContentPresent(Message, "text/plain", "plain")
        /\ Has(Payload, "html") <=> ContentPresent(Message, "text/html", "html")
        /\ Has(Payload, "text") => Payload["text"] = ContentExpected(Message, "text/plain")
        /\ Has(Payload, "html") => Payload["html"] = ContentExpected(Message, "text/html")
        /\ Has(Payload, "text") \/ Has(Payload, "html")

C4_Witness ==
    /\ Built
    /\ Message.content_subtype = "plain"
    /\ Len(Message.alternatives) = 2
    /\ Message.alternatives[1][2] = "text/html"
    /\ Message.alternatives[2][2] = "text/html"
    /\ Payload["text"] = "body"
    /\ Payload["html"] = "alt2"

Nameless(attachment) == attachment.filename = NoneVal

ContentTypeOf(attachment) ==
    IF attachment.form = "mime" THEN attachment.content_type
    ELSE attachment.mimetype

Guessable(attachment) == guess_extension(ContentTypeOf(attachment)) # NoneVal

\* The number of nameless attachments among the first j.
NamelessUpTo(attachments, j) ==
    Cardinality({x \in 1..j : Nameless(attachments[x])})

\* __set_attachments has been called and has returned or raised.
AttachmentsActed == Built \/ (obj.step = "set_attachments" /\ Failed)

\* C5 (as claimed): when every nameless attachment has a guessable content
\* type, the k-th nameless attachment, of either form, is named
\* 'attachment-k' plus the extension, named attachments keep their
\* filename, and the counter ends at one more than the nameless count.
C5_NamelessNumbering ==
    (/\ AttachmentsActed
     /\ Len(Message.attachments) > 0
     /\ \A j \in 1..Len(Message.attachments) :
           Nameless(Message.attachments[j]) => Guessable(Message.attachments[j]))
    =>
        /\ obj.err = "none"
        /\ Has(Payload, "attachments")
        /\ \A j \in 1..Len(Message.attachments) :
              Payload["attachments"][j].filename =
                  IF Nameless(Message.attachments[j])
                  THEN "attachment-"
                       \o ToString(NamelessUpTo(Message.attachments, j))
                       \o guess_extension(ContentTypeOf(Message.attachments[j]))
                  ELSE Message.attachments[j].filename
        /\ obj.nameless_attachment_index
              = 1 + NamelessUpTo(Message.attachments, Len(Message.attachments))

\* C6 (as claimed): a nameless MIME attachment whose content type has no
\* guessable extension does not fail the conversion: it is named
\* 'attachment-n' without extension and the counter counts it.
C6_NoExtensionNotFatal ==
    (/\ AttachmentsActed
     /\ \E j \in 1..Len(Message.attachments) :
           Nameless(Message.attachments[j]) /\ ~Guessable(Message.attachments[j])
     /\ \A j \in 1..Len(Message.attachments) :
           Nameless(Message.attachments[j]) => Message.attachments[j].form = "mime")
    =>
        /\ obj.err = "none"
        /\ Has(Payload, "attachments")
        /\ \A j \in 1..Len(Message.attachments) :
              (Nameless(Message.attachments[j]) /\ ~Guessable(Message.attachments[j]))
              => Payload["attachments"][j].filename =
                     "attachment-" \o ToString(NamelessUpTo(Message.attachments, j))
        /\ obj.nameless_attachment_index
              = 1 + NamelessUpTo(Message.attachments, Len(Message.attachments))

Prefix202(resp) ==
    Len(resp) >= 3 /\ resp[1] = "2" /\ resp[2] = "0" /\ resp[3] = "2"

IsInfix(a, b) ==
    \E s \in 0..(Len(b) - Len(a)) : SubSeq(b, s + 1, s + Len(a)) = a

\* C8: in a built payload cc, bcc, reply_to and attachments are present
\* exactly when the source sequence is not empty, with one entry per
\* source entry in source order; to is always present.
C8_OptionalKeys ==
    Built =>
        /\ \A k \in OptionalKeys :
              /\ Has(Payload, k) <=> Len(Message[k]) > 0
              /\ Has(Payload, k) => Len(Payload[k]) = Len(Message[k])
        /\ Has(Payload, "to")
        /\ Len(Payload["to"]) = Len(Message.to)
        /\ \A k \in {"to", "cc", "bcc", "reply_to"} :
              Has(Payload, k) =>
                  \A j \in 1..Len(Message[k]) :
                      IsInfix(Payload[k][j]["email"], Message[k][j])
        /\ Has(Payload, "attachments") =>
              \A j \in 1..Len(Message.attachments) :
                  ~Nameless(Message.attachments[j]) =>
                      Payload["attachments"][j].filename
                          = Message.attachments[j].filename

C8_Witness ==
    /\ Built
    /\ Len(Message.to) = 0
    /\ Len(Message.cc) = 2
    /\ Len(Message.bcc) = 0
    /\ Has(Payload, "to")
    /\ Len(Payload["cc"]) = 2
    /\ ~Has(Payload, "bcc")

AddressKeys == {"to", "cc", "bcc", "reply_to"}

WellFormedAddress(record) ==
    /\ Has(record, "email")
    /\ \A j \in 1..Len(record["email"]) : record["email"][j] \notin {"<", ">", " "}
    /\ Has(record, "name") => Len(record["name"]) > 0

\* C9 (as claimed): every address of a built payload is the parsed form of
\* its source string: an email without display name or angle brackets, and
\* a name only when there is one.
C9_AddressesParsed ==
    Built =>
        /\ Payload["from"] = parse_address(Message.from_email)
        /\ WellFormedAddress(Payload["from"])
        /\ \A k \in AddressKeys :
              Has(Payload, k) =>
                  \A j \in 1..Len(Message[k]) :
                      /\ Payload[k][j] = parse_address(Message[k][j])
                      /\ WellFormedAddress(Payload[k][j])

\* C10 (as claimed): send_messages returns the number of messages whose
\* transport response started with '202'.
C10_BatchCount ==
    (pc = "returned" /\ cls = "backend") =>
        /\ result.type = "int"
        /\ result.val = accepted


Ended(o) == o.step = "done" \/ o.err # "none"

\* The number of helper calls an object has been through.
CallsMade(o) ==
    LET before == [validate_headers |-> 0, set_content |-> 1, set_mail_from |-> 2,
                   set_mail_to |-> 3, set_subject |-> 4, set_cc_recipients |-> 5,
                   set_bcc_recipients |-> 6, set_reply_to |-> 7,
                   set_attachments |-> 8, done |-> 9]
    IN  IF o.err = "none" THEN before[o.step] ELSE before[o.step] + 1

\* C11: however the helper calls of the conversions interleave, each object
\* is at every moment what its conversion running alone makes of its
\* message after some number of helper calls, and once its conversion has
\* ended, what the whole conversion alone makes of it (payload, counter,
\* synthesized filenames, exception); the message it was given and the
\* shared NewEmail object are never changed.
C11_NoInterference ==
    /\ mailer = NewEmail
    /\ \A t \in Conversions :
          objs[t].step # "none" =>
              /\ objs[t].email_message = sources[t]
              /\ objs[t] = RunAlone(cls, NewObject(sources[t]), CallsMade(objs[t]))
              /\ Ended(objs[t]) =>
                    objs[t] = RunAlone(cls, NewObject(sources[t]),
                                       Cardinality(DOMAIN NextStep))

C11_Witness ==
    /\ interleaved
    /\ cls = "message"
    /\ objs["c1"].step = "done"
    /\ objs["c2"].step = "done"
    /\ sources["c1"].attachments = <<MimeNamelessText, MimeNamelessText>>
    /\ sources["c2"].attachments = <<MimeNamed, MimeNamelessText>>
    /\ objs["c1"].email_data["attachments"][2].filename = "attachment-2.txt"
    /\ objs["c2"].email_data["attachments"][2].filename = "attachment-1.txt"
    /\ objs["c1"].nameless_attachment_index = 3
    /\ objs["c2"].nameless_attachment_index = 2

====
